---- MODULE Spec2Model ----
(***************************************************************************)
(* Two-layer forest-fire cellular automaton (core/cell.py,                  *)
(* core/fire_engine.py, core/terrain.py, core/cellular_automaton.py).       *)
(*                                                                          *)
(* Arithmetic.  The program computes in floating point; the model computes  *)
(* in integers, in these units:                                             *)
(*   time      1 tick = 1/TimeScale minute (dt, current_time, end_time);    *)
(*   fuel      1 unit = 1/6 kg/m^2 (so the canopy's 0.5 kg/m^2 is 3);       *)
(*   moisture  1 level = 0.4 (so the canopy's 0.8 is level 2);              *)
(*   energy    1 unit = 1 kJ.                                               *)
(*   heat      heat_content counts 18.5 kJ/kg (so 18500 kJ/kg is 1000).     *)
(* The exponential coefficients of the configuration are taken as ln 2 per  *)
(* moisture level, so that exp(k * moisture) = 2^level, and divisions round *)
(* down.  Rates of the configuration (spread, consumption) are per tick.    *)
(***************************************************************************)
EXTENDS Integers, Sequences, FiniteSets, TLC

(***************************************************************************)
(* Bounds of the exploration.                                               *)
(***************************************************************************)
MaxSteps == 3
MaxSeeds == 2

(***************************************************************************)
(* Configuration values and literals of the program.                        *)
(***************************************************************************)
TimeScale == 4
width == 3
cell_size == 10
canopy_height == 5
canopy_fuel_load == 3
canopy_moisture_content == 2
heat_content == 1000
canopy_base_height == 3
R0 == 80
Ks == 1
energy_transfer_multiplier == 1
min_energy_transfer == 0
evaporation_divisor == 4
initial_moisture_content == 1
spot_search_radius == 50
max_spotting_distance == 500
NoThreshold == -1

VARIABLES
    \* configuration (set at construction, never changed)
    dt, fuel_consumption_rate, initial_fuel_load, base_ignition_energy,
    wind_x, enable_wind_effects, enable_crown_fire, enable_spotting,
    enable_dynamic_moisture,
    \* Cell.dynamic and the cached threshold, per cell id
    state, fuel_load, moisture_content, energy, burn_time, cached_threshold,
    \* CellularAutomaton
    burning_surface_cells, burning_canopy_cells, current_time, stats,
    stats_history, fire_history,
    \* control: position inside step() and inside run_simulation()
    pc, run, end_time, result,
    \* observation of the run (history variables)
    step_start_burning, energy_sources, ignited_in_step, predicted,
    step_no, raised, run_steps, run_start_time, run_fresh, run_extinct

config_vars == <<dt, fuel_consumption_rate, initial_fuel_load, base_ignition_energy,
                 wind_x, enable_wind_effects, enable_crown_fire, enable_spotting,
                 enable_dynamic_moisture>>
cell_vars == <<state, fuel_load, moisture_content, energy, burn_time, cached_threshold>>
list_vars == <<burning_surface_cells, burning_canopy_cells>>
clock_vars == <<current_time, stats, stats_history>>
run_vars == <<run, end_time, result, run_steps, run_start_time, run_fresh, run_extinct>>
obs_vars == <<step_start_burning, energy_sources, ignited_in_step, predicted, step_no>>
vars == <<config_vars, cell_vars, list_vars, clock_vars, fire_history, pc, run_vars,
          obs_vars, raised>>

(***************************************************************************)
(* Small arithmetic helpers.                                                *)
(***************************************************************************)
Max(a, b) == IF a >= b THEN a ELSE b
Min(a, b) == IF a <= b THEN a ELSE b
Abs(a) == IF a >= 0 THEN a ELSE -a

RECURSIVE Pow2(_)
Pow2(n) == IF n <= 0 THEN 1 ELSE 2 * Pow2(n - 1)

\* math.sqrt / np.sqrt on the integer squares the geometry produces
ISqrt(n) == CHOOSE r \in 0..(n + 1) : r * r <= n /\ (r + 1) * (r + 1) > n

CeilDiv(a, b) == (a + b - 1) \div b

RECURSIVE SeqSum(_)
SeqSum(s) == IF s = <<>> THEN 0 ELSE Head(s) + SeqSum(Tail(s))

Range(s) == {s[i] : i \in 1..Len(s)}

Count(s, x) == Cardinality({i \in 1..Len(s) : s[i] = x})

\* list.remove(x): removes the first occurrence
RECURSIVE RemoveFirst(_, _)
RemoveFirst(s, x) ==
    IF s = <<>> THEN <<>>
    ELSE IF Head(s) = x THEN Tail(s)
    ELSE <<Head(s)>> \o RemoveFirst(Tail(s), x)

(***************************************************************************)
(* Cells: TerrainGenerator.create_ideal_terrain on a width x 1 flat grid.   *)
(***************************************************************************)
UNBURNED == "UNBURNED"
SURFACE_FIRE == "SURFACE_FIRE"
CROWN_FIRE == "CROWN_FIRE"
BURNED_OUT == "BURNED_OUT"
CellState == {UNBURNED, SURFACE_FIRE, CROWN_FIRE, BURNED_OUT}

surface_cells == [j \in 1..width |-> j - 1]
canopy_cells == [j \in 1..width |-> j - 1 + width]
SurfaceIds == Range(surface_cells)
CanopyIds == Range(canopy_cells)
CellIds == SurfaceIds \cup CanopyIds

position(c) ==
    IF c < width THEN <<c * cell_size, 0, 0>>
    ELSE <<(c - width) * cell_size, 0, canopy_height>>

\* a neighbourhood that also joins each cell to the cell of the other layer
\* at its x/y position
neighbors_across_layers(c) ==
    LET base == IF c < width THEN 0 ELSE width
        j == c - base
    IN  (IF j - 1 >= 0 THEN <<base + j - 1>> ELSE <<>>)
        \o (IF j + 1 < width THEN <<base + j + 1>> ELSE <<>>)
        \o <<(width - base) + j>>

\* _build_neighbor_relationships: the 8-neighbourhood inside the cell's layer
neighbors(c) ==
    LET base == IF c < width THEN 0 ELSE width
        j == c - base
    IN  (IF j - 1 >= 0 THEN <<base + j - 1>> ELSE <<>>)
        \o (IF j + 1 < width THEN <<base + j + 1>> ELSE <<>>)

distance_to(a, b) ==
    LET p == position(a)
        q == position(b)
    IN  ISqrt((q[1] - p[1]) * (q[1] - p[1]) + (q[2] - p[2]) * (q[2] - p[2])
              + (q[3] - p[3]) * (q[3] - p[3]))

(***************************************************************************)
(* Cell (core/cell.py).  W is the record of the per-cell fields.            *)
(***************************************************************************)
Cells == [state |-> state, fuel_load |-> fuel_load,
          moisture_content |-> moisture_content, energy |-> energy,
          burn_time |-> burn_time, cached_threshold |-> cached_threshold]

\* base_energy * np.exp(moisture_factor_exp * moisture_content)
threshold_formula(W, c) == base_ignition_energy * Pow2(W.moisture_content[c])

\* the value the ignition_threshold property returns
ignition_threshold(W, c) ==
    IF W.cached_threshold[c] = NoThreshold THEN threshold_formula(W, c)
    ELSE W.cached_threshold[c]

\* the property's side effect: the computed value is kept
read_threshold(W, c) ==
    [W EXCEPT !.cached_threshold[c] = ignition_threshold(W, c)]

\* set_ignition_parameters drops the cached value; the parameters themselves
\* are base_ignition_energy and the fixed moisture factor
set_ignition_parameters(W, c) == [W EXCEPT !.cached_threshold[c] = NoThreshold]

\* can_ignite without its comparison of the energy with the threshold
can_ignite_any_energy(W, c) == W.state[c] = UNBURNED

can_ignite(W, c) ==
    W.state[c] = UNBURNED /\ W.energy[c] >= ignition_threshold(W, c)

\* ignite without its test of the present state
ignite_unguarded(W, c, fire_type) ==
    [W EXCEPT !.state[c] = fire_type, !.burn_time[c] = 0,
              !.cached_threshold[c] = NoThreshold]

\* an ignite that refuses only burned-out cells
ignite_unless_burned_out(W, c, fire_type) ==
    IF W.state[c] # BURNED_OUT
    THEN [W EXCEPT !.state[c] = fire_type, !.burn_time[c] = 0,
                   !.cached_threshold[c] = NoThreshold]
    ELSE W

ignite(W, c, fire_type) ==
    IF W.state[c] = UNBURNED
    THEN [W EXCEPT !.state[c] = fire_type, !.burn_time[c] = 0,
                   !.cached_threshold[c] = NoThreshold]
    ELSE W

\* a burn_out that also gives off half of the cell's accumulated energy
burn_out_draining(W, c) ==
    [W EXCEPT !.state[c] = BURNED_OUT, !.fuel_load[c] = 0, !.energy[c] = @ \div 2]

burn_out(W, c) == [W EXCEPT !.state[c] = BURNED_OUT, !.fuel_load[c] = 0]

update_energy(W, c, energy_delta) == [W EXCEPT !.energy[c] = @ + energy_delta]

\* update_moisture without its max(0.0, ...)
update_moisture_unclamped(W, c, moisture_delta) ==
    [W EXCEPT !.moisture_content[c] = @ + moisture_delta,
              !.cached_threshold[c] = NoThreshold]

\* update_moisture without the reset of the cached threshold
update_moisture_keeping_cache(W, c, moisture_delta) ==
    [W EXCEPT !.moisture_content[c] = Max(0, @ + moisture_delta)]

update_moisture(W, c, moisture_delta) ==
    [W EXCEPT !.moisture_content[c] = Max(0, @ + moisture_delta),
              !.cached_threshold[c] = NoThreshold]

\* more burn time than MaxSeeds entries of a cell on a worklist collect in
\* MaxSteps + 1 steps of the longest dt; the count of burn_time stops there
MaxBurnTime == MaxSeeds * (MaxSteps + 1) * TimeScale

\* a consume_fuel that always leaves a last unit of fuel on the cell
consume_fuel_smouldering(W, c, consumption_rate, step_dt) ==
    [W EXCEPT !.fuel_load[c] = Max(1, @ - consumption_rate * step_dt),
              !.burn_time[c] = Min(@ + step_dt, MaxBurnTime)]

consume_fuel(W, c, consumption_rate, step_dt) ==
    LET consumption == consumption_rate * step_dt
        W1 == [W EXCEPT !.fuel_load[c] = Max(0, @ - consumption),
                        !.burn_time[c] = Min(@ + step_dt, MaxBurnTime)]
    IN  IF W1.fuel_load[c] <= 0 THEN burn_out(W1, c) ELSE W1

(***************************************************************************)
(* FireEngine (core/fire_engine.py) on flat ground, wind along the x axis.  *)
(***************************************************************************)
\* exp(a * 0): every pair of neighbours lies at the same height
slope_effect == 1

\* speed_effect * direction_effect with c = 1 and exp(-2k) = 1/2:
\* 2 with the wind, 1 against it; 1.0 when disabled or calm
wind_effect(spread_x, enable_wind) ==
    IF ~enable_wind THEN 1
    ELSE IF wind_x = 0 THEN 1
    ELSE IF spread_x = 0 THEN 1
    ELSE IF wind_x * spread_x > 0 THEN 2 ELSE 1

\* exp(-b * moisture) = 1 / moisture_divisor
moisture_divisor(moisture) == Pow2(moisture)

calculate_spread_rate(W, from_cell, to_cell, enable_wind) ==
    LET spread_x == position(to_cell)[1] - position(from_cell)[1]
        wind_factor == wind_effect(spread_x, enable_wind)
        spread_rate == (R0 * wind_factor * Ks * slope_effect)
                          \div moisture_divisor(W.moisture_content[to_cell])
    IN  Max(0, spread_rate)

calculate_energy_transfer(W, from_cell, to_cell, enable_wind) ==
    IF W.state[from_cell] \notin {SURFACE_FIRE, CROWN_FIRE} THEN 0
    ELSE IF distance_to(from_cell, to_cell) = 0 THEN 0
    ELSE LET spread_rate == calculate_spread_rate(W, from_cell, to_cell, enable_wind)
             energy_coefficient == (W.fuel_load[from_cell] * heat_content) \div 1000
             heat_flux == energy_coefficient * spread_rate
             distance_factor == Max(1, distance_to(from_cell, to_cell))
             energy_transfer == ((heat_flux * dt) \div distance_factor)
                                   * energy_transfer_multiplier
         IN  Max(energy_transfer, min_energy_transfer * dt)

unburned_neighbors(W, c) ==
    SelectSeq(neighbors(c), LAMBDA n : W.state[n] = UNBURNED)

RECURSIVE spread_total(_, _, _)
spread_total(W, c, ns) ==
    IF ns = <<>> THEN 0
    ELSE calculate_spread_rate(W, c, Head(ns), TRUE) + spread_total(W, c, Tail(ns))

\* the spread rate is averaged with enable_wind at its default (True)
calculate_fire_line_intensity(W, c) ==
    IF W.state[c] # SURFACE_FIRE THEN 0
    ELSE LET ns == unburned_neighbors(W, c)
         IN  IF Len(ns) = 0 THEN 0
             ELSE LET avg_spread_rate == spread_total(W, c, ns) \div Len(ns)
                  IN  (heat_content * avg_spread_rate * W.fuel_load[c]) \div 1000

\* ten times 0.01 * cbh * (460 + 26 * fmc), fmc = 40 per moisture level
critical_base10(W, c) ==
    (canopy_base_height * (460 + 26 * 40 * W.moisture_content[c])) \div 10

\* a transition test that looks at the fire state only, not at the intensity
can_crown_fire_any_intensity(W, c) == W.state[c] = SURFACE_FIRE

\* fire_intensity > critical ** 1.5, compared as squares
can_crown_fire_initiate(W, c) ==
    LET fire_intensity == calculate_fire_line_intensity(W, c)
        x == critical_base10(W, c)
    IN  fire_intensity * fire_intensity * 1000 > x * x * x

\* moisture_loss = energy_received * evaporation_coefficient
update_moisture_from_heat(W, c, energy_received) ==
    IF energy_received > 0
    THEN update_moisture(W, c, -(energy_received \div evaporation_divisor))
    ELSE W

(***************************************************************************)
(* CellularAutomaton: the stages of step() as functions of the cell record  *)
(* and the two worklists (core/cellular_automaton.py).                      *)
(***************************************************************************)
source_visits(c) == [i \in 1..Len(neighbors(c)) |-> <<c, neighbors(c)[i]>>]

\* the (burning_cell, neighbor) pairs in the order the two loops visit them
RECURSIVE transfer_visits(_)
transfer_visits(worklist) ==
    IF worklist = <<>> THEN <<>>
    ELSE source_visits(Head(worklist)) \o transfer_visits(Tail(worklist))

\* the first half of _energy_transfer_step: fills the energy_updates dict
RECURSIVE accumulate(_, _, _)
accumulate(W, visits, energy_updates) ==
    IF visits = <<>> THEN energy_updates
    ELSE LET burning_cell == Head(visits)[1]
             neighbor == Head(visits)[2]
         IN  IF W.state[neighbor] = UNBURNED
             THEN LET energy_delta == calculate_energy_transfer(
                                          W, burning_cell, neighbor, enable_wind_effects)
                      before == IF neighbor \in DOMAIN energy_updates
                                THEN energy_updates[neighbor] ELSE 0
                  IN  accumulate(W, Tail(visits),
                          [k \in (DOMAIN energy_updates) \cup {neighbor} |->
                              IF k = neighbor THEN before + energy_delta
                              ELSE energy_updates[k]])
             ELSE accumulate(W, Tail(visits), energy_updates)

\* the second half: update_energy and the drying feedback, once per keyed cell
RECURSIVE apply_updates(_, _, _)
apply_updates(W, all_cells, energy_updates) ==
    IF all_cells = <<>> THEN W
    ELSE LET cell == Head(all_cells)
         IN  IF cell \in DOMAIN energy_updates
             THEN LET energy_received == energy_updates[cell]
                  IN  apply_updates(
                          update_moisture_from_heat(
                              update_energy(W, cell, energy_received),
                              cell, energy_received),
                          Tail(all_cells), energy_updates)
             ELSE apply_updates(W, Tail(all_cells), energy_updates)

\* a slip the two-phase code avoids: each visit heats and dries its target at once
RECURSIVE transfer_in_place(_, _)
transfer_in_place(W, visits) ==
    IF visits = <<>> THEN W
    ELSE LET burning_cell == Head(visits)[1]
             neighbor == Head(visits)[2]
         IN  IF W.state[neighbor] = UNBURNED
             THEN LET energy_delta == calculate_energy_transfer(
                                          W, burning_cell, neighbor, enable_wind_effects)
                  IN  transfer_in_place(
                          update_moisture_from_heat(
                              update_energy(W, neighbor, energy_delta),
                              neighbor, energy_delta),
                          Tail(visits))
             ELSE transfer_in_place(W, Tail(visits))

energy_transfer_in_place(W, bs, bc) == transfer_in_place(W, transfer_visits(bs \o bc))

energy_transfer_step(W, bs, bc) ==
    apply_updates(W, surface_cells \o canopy_cells,
                  accumulate(W, transfer_visits(bs \o bc), <<>>))

\* an ignition step that looks at the surface layer only
ignition_step_surface_only(W) ==
    LET one(c) == IF W.state[c] # UNBURNED \/ c \notin SurfaceIds THEN W
                  ELSE IF can_ignite(W, c) THEN ignite(read_threshold(W, c), c, SURFACE_FIRE)
                  ELSE read_threshold(W, c)
    IN  [state |-> [c \in CellIds |-> one(c).state[c]],
         fuel_load |-> W.fuel_load,
         moisture_content |-> W.moisture_content,
         energy |-> W.energy,
         burn_time |-> [c \in CellIds |-> one(c).burn_time[c]],
         cached_threshold |-> [c \in CellIds |-> one(c).cached_threshold[c]]]

\* _ignition_step: can_ignite reads (and so caches) the threshold of every
\* UNBURNED cell; the matches are ignited with the fire type of their layer
ignition_step_cells(W) ==
    LET fire_type(c) == IF c \in SurfaceIds THEN SURFACE_FIRE ELSE CROWN_FIRE
        one(c) == IF W.state[c] # UNBURNED THEN W
                  ELSE IF can_ignite(W, c) THEN ignite(read_threshold(W, c), c, fire_type(c))
                  ELSE read_threshold(W, c)
    IN  [state |-> [c \in CellIds |-> one(c).state[c]],
         fuel_load |-> W.fuel_load,
         moisture_content |-> W.moisture_content,
         energy |-> W.energy,
         burn_time |-> [c \in CellIds |-> one(c).burn_time[c]],
         cached_threshold |-> [c \in CellIds |-> one(c).cached_threshold[c]]]

newly_ignited(W, cells) == SelectSeq(cells, LAMBDA c : can_ignite(W, c))

\* one loop of _fuel_consumption_step: W after the visits, and cells_to_remove
RECURSIVE consume_all(_, _, _, _)
consume_all(W, worklist, rate, cells_to_remove) ==
    IF worklist = <<>> THEN [W |-> W, cells_to_remove |-> cells_to_remove]
    ELSE LET cell == Head(worklist)
             W1 == consume_fuel(W, cell, rate, dt)
         IN  consume_all(W1, Tail(worklist), rate,
                 IF W1.state[cell] = BURNED_OUT
                 THEN Append(cells_to_remove, cell) ELSE cells_to_remove)

RECURSIVE remove_all(_, _)
remove_all(worklist, cells_to_remove) ==
    IF cells_to_remove = <<>> THEN worklist
    ELSE remove_all(RemoveFirst(worklist, Head(cells_to_remove)), Tail(cells_to_remove))

\* a lookup that returns the first canopy cell wherever the surface cell lies
find_first_canopy_cell(surface_cell) ==
    IF canopy_cells = <<>> THEN -1 ELSE Head(canopy_cells)

\* _find_corresponding_canopy_cell: the first canopy cell within 1 in x and y;
\* -1 stands for None
find_corresponding_canopy_cell(surface_cell) ==
    LET p == position(surface_cell)
        hits == SelectSeq(canopy_cells,
                    LAMBDA k : Abs(position(k)[1] - p[1]) < 1
                               /\ Abs(position(k)[2] - p[2]) < 1)
    IN  IF hits = <<>> THEN -1 ELSE Head(hits)

\* _crown_fire_transition_step: W after the loop, and newly_crown_fires
RECURSIVE crown_fire_transition(_, _, _)
crown_fire_transition(W, worklist, newly_crown_fires) ==
    IF worklist = <<>> THEN [W |-> W, newly |-> newly_crown_fires]
    ELSE LET surface_cell == Head(worklist)
             corresponding_canopy == find_corresponding_canopy_cell(surface_cell)
         IN  IF can_crown_fire_initiate(W, surface_cell)
                /\ corresponding_canopy # -1
                /\ W.state[corresponding_canopy] = UNBURNED
             THEN crown_fire_transition(ignite(W, corresponding_canopy, CROWN_FIRE),
                      Tail(worklist), Append(newly_crown_fires, corresponding_canopy))
             ELSE crown_fire_transition(W, Tail(worklist), newly_crown_fires)

\* 50 * (cos, sin) of the sampled deviation from the wind bearing, which
\* random.uniform draws within 30 degrees of it: 0 and atan(14/48) either way
SpotDirections == {<<50, 0>>, <<48, 14>>, <<48, -14>>}
\* random.random() >= spotting_probability: this crown cell throws no ember
NoSpot == <<0, 0>>
SpotChoices == SpotDirections \cup {NoSpot}

\* _calculate_spot_fire_position; <<>> stands for None
calculate_spot_fire_position(crown_cell, direction) ==
    LET wind_speed == Abs(wind_x)
        spot_distance == Min(wind_speed * 50, max_spotting_distance)
        sign == IF wind_x > 0 THEN 1 ELSE -1
    IN  IF wind_speed = 0 THEN <<>>
        ELSE <<position(crown_cell)[1] + (sign * spot_distance * direction[1]) \div 50,
               position(crown_cell)[2] + (sign * spot_distance * direction[2]) \div 50>>

\* a nearest-cell search over the cells of both layers
find_nearest_unburned_cell(W, spot) ==
    LET d2(c) == (position(c)[1] - spot[1]) * (position(c)[1] - spot[1])
                 + (position(c)[2] - spot[2]) * (position(c)[2] - spot[2])
        unburned == SelectSeq(surface_cells \o canopy_cells,
                              LAMBDA c : W.state[c] = UNBURNED)
    IN  IF unburned = <<>> THEN -1
        ELSE LET i == CHOOSE k \in 1..Len(unburned) :
                          /\ \A m \in 1..Len(unburned) : d2(unburned[k]) <= d2(unburned[m])
                          /\ \A m \in 1..(k - 1) : d2(unburned[m]) > d2(unburned[k])
             IN  IF d2(unburned[i]) <= spot_search_radius * spot_search_radius
                 THEN unburned[i] ELSE -1

\* _find_nearest_unburned_surface_cell: the first cell at the least distance,
\* if that is within the search radius; -1 stands for None
find_nearest_unburned_surface_cell(W, spot) ==
    LET d2(c) == (position(c)[1] - spot[1]) * (position(c)[1] - spot[1])
                 + (position(c)[2] - spot[2]) * (position(c)[2] - spot[2])
        unburned == SelectSeq(surface_cells, LAMBDA c : W.state[c] = UNBURNED)
    IN  IF unburned = <<>> THEN -1
        ELSE LET i == CHOOSE k \in 1..Len(unburned) :
                          /\ \A m \in 1..Len(unburned) : d2(unburned[k]) <= d2(unburned[m])
                          /\ \A m \in 1..(k - 1) : d2(unburned[m]) > d2(unburned[k])
             IN  IF d2(unburned[i]) <= spot_search_radius * spot_search_radius
                 THEN unburned[i] ELSE -1

\* _spotting_step: choices[i] is what the random draws give the i-th crown cell
RECURSIVE spotting(_, _, _, _)
spotting(W, worklist, choices, new_spot_fires) ==
    IF worklist = <<>> THEN [W |-> W, newly |-> new_spot_fires]
    ELSE LET crown_cell == Head(worklist)
             spot_position == IF Head(choices) = NoSpot THEN <<>>
                              ELSE calculate_spot_fire_position(crown_cell, Head(choices))
             target_cell == IF spot_position = <<>> THEN -1
                            ELSE find_nearest_unburned_surface_cell(W, spot_position)
         IN  IF target_cell # -1
             THEN spotting(ignite(W, target_cell, SURFACE_FIRE), Tail(worklist),
                           Tail(choices), Append(new_spot_fires, target_cell))
             ELSE spotting(W, Tail(worklist), Tail(choices), new_spot_fires)

\* TerrainGenerator.set_ignition_point on the surface cells: every cell within
\* the radius is ignited (a no-op unless UNBURNED) and returned
\* a distance test that ignores z even when the point has one
in_radius_ignoring_z(c, point, radius) ==
    LET dx == position(c)[1] - point[1]
        dy == position(c)[2] - point[2]
    IN  radius >= 0 /\ dx * dx + dy * dy <= radius * radius

in_radius(c, point, radius) ==
    LET dx == position(c)[1] - point[1]
        dy == position(c)[2] - point[2]
        dz == IF Len(point) = 3 THEN position(c)[3] - point[3] ELSE 0
    IN  radius >= 0 /\ dx * dx + dy * dy + dz * dz <= radius * radius

terrain_ignited_cells(cells, point, radius) ==
    SelectSeq(cells, LAMBDA c : in_radius(c, point, radius))

RECURSIVE ignite_all(_, _)
ignite_all(W, cells) ==
    IF cells = <<>> THEN W
    ELSE ignite_all(ignite(W, Head(cells), SURFACE_FIRE), Tail(cells))

\* _update_statistics
SetMax(S) == CHOOSE m \in S : \A x \in S : x <= m

\* statistics that count the cells on fire only, not the burned-out ones
update_statistics_burning_only(W, bs) ==
    LET burned == {c \in SurfaceIds : W.state[c] = SURFACE_FIRE}
        cell_area == cell_size * cell_size
        consumed == SeqSum([i \in 1..width |->
                        IF surface_cells[i] \in burned
                        THEN initial_fuel_load - W.fuel_load[surface_cells[i]] ELSE 0])
    IN  [burned_area |-> Cardinality(burned) * cell_area,
         fire_perimeter |-> 0,
         max_fire_intensity |->
             SetMax({0} \cup {calculate_fire_line_intensity(W, c) : c \in Range(bs)}),
         total_fuel_consumed |-> consumed * cell_area]

\* statistics that add each step's burned area to the area already recorded
update_statistics_cumulative(W, bs) ==
    LET burned == {c \in SurfaceIds : W.state[c] \in {SURFACE_FIRE, BURNED_OUT}}
        cell_area == cell_size * cell_size
        consumed == SeqSum([i \in 1..width |->
                        IF surface_cells[i] \in burned
                        THEN initial_fuel_load - W.fuel_load[surface_cells[i]] ELSE 0])
    IN  [burned_area |-> stats.burned_area + Cardinality(burned) * cell_area,
         fire_perimeter |-> 0,
         max_fire_intensity |->
             SetMax({0} \cup {calculate_fire_line_intensity(W, c) : c \in Range(bs)}),
         total_fuel_consumed |-> consumed * cell_area]

update_statistics(W, bs) ==
    LET burned == {c \in SurfaceIds : W.state[c] \in {SURFACE_FIRE, BURNED_OUT}}
        cell_area == cell_size * cell_size
        consumed == SeqSum([i \in 1..width |->
                        IF surface_cells[i] \in burned
                        THEN initial_fuel_load - W.fuel_load[surface_cells[i]] ELSE 0])
    IN  [burned_area |-> Cardinality(burned) * cell_area,
         fire_perimeter |-> 0,
         max_fire_intensity |->
             SetMax({0} \cup {calculate_fire_line_intensity(W, c) : c \in Range(bs)}),
         total_fuel_consumed |-> consumed * cell_area]

\* _record_history: int(self.current_time) % 60 == 0
records_now(time) == (time \div TimeScale) % 60 = 0

record_history(history, time, st, bs, bc) ==
    IF records_now(time)
    THEN Append(history, [time |-> time, stats |-> st,
                          burning_surface_count |-> Len(bs),
                          burning_canopy_count |-> Len(bc)])
    ELSE history

(***************************************************************************)
(* The state machine.                                                       *)
(***************************************************************************)
\* The configurations explored: time_step, fuel_consumption_rate,
\* initial_fuel_load, base_ignition_energy, the x component of wind_vector, and
\* the four enable_* switches (wind effects, crown fire, spotting, dynamic
\* moisture).
Config(d, r, f, b, w, we, cf, sp, dm) ==
    [dt |-> d, fuel_consumption_rate |-> r, initial_fuel_load |-> f,
     base_ignition_energy |-> b, wind_x |-> w, enable_wind_effects |-> we,
     enable_crown_fire |-> cf, enable_spotting |-> sp, enable_dynamic_moisture |-> dm]

Configs ==
    { Config(1, 1, 3, 16, 1, FALSE, TRUE, TRUE, TRUE),
      Config(1, 1, 3, 16, 0, FALSE, TRUE, TRUE, TRUE),
      Config(1, 1, 3, 16, 1, FALSE, TRUE, FALSE, TRUE),
      Config(1, 1, 3, 16, 0, FALSE, TRUE, FALSE, TRUE),
      Config(1, 1, 2, 16, 1, TRUE, FALSE, FALSE, FALSE),
      Config(1, 2, 3, 16, 1, TRUE, TRUE, TRUE, FALSE),
      Config(TimeScale, 1, 2, 16, 1, TRUE, TRUE, TRUE, TRUE),
      Config(TimeScale, 2, 3, 16, 0, FALSE, FALSE, TRUE, TRUE),
      Config(TimeScale, 0, 2, 16, 1, FALSE, TRUE, TRUE, TRUE),
      Config(1, 1, 2, 0, 0, FALSE, TRUE, FALSE, TRUE) }

\* the points and radii given to set_ignition_point: over cell 0, above
\* cell 2 at canopy height, and a point of the wrong arity
SeedPoints == {<<0, 0>>, <<20, 0, 5>>, <<10>>}
SeedRadii == {0, 10}

\* the order of the stages inside step()
step_stages_ignition_first == <<"ignition", "energy", "fuel", "crown", "spotting", "finish">>

step_stages == <<"energy", "ignition", "fuel", "crown", "spotting", "finish">>

first_stage == step_stages[1]

stage_after(p) ==
    LET i == CHOOSE k \in 1..Len(step_stages) : step_stages[k] = p
    IN  IF i = Len(step_stages) THEN "idle" ELSE step_stages[i + 1]

BURNING == {SURFACE_FIRE, CROWN_FIRE}

layer_rate(c) == IF c \in SurfaceIds THEN fuel_consumption_rate ELSE fuel_consumption_rate * 2

\* what the result variable holds while no run_simulation has returned
no_result == [final_time |-> 0, burned_area |-> 0]

Init ==
    /\ \E k \in Configs :
          /\ dt = k.dt
          /\ fuel_consumption_rate = k.fuel_consumption_rate
          /\ initial_fuel_load = k.initial_fuel_load
          /\ base_ignition_energy = k.base_ignition_energy
          /\ wind_x = k.wind_x
          /\ enable_wind_effects = k.enable_wind_effects
          /\ enable_crown_fire = k.enable_crown_fire
          /\ enable_spotting = k.enable_spotting
          /\ enable_dynamic_moisture = k.enable_dynamic_moisture
    /\ state = [c \in CellIds |-> UNBURNED]
    /\ fuel_load = [c \in CellIds |->
                       IF c \in SurfaceIds THEN initial_fuel_load ELSE canopy_fuel_load]
    /\ moisture_content = [c \in CellIds |->
                       IF c \in SurfaceIds THEN initial_moisture_content
                       ELSE canopy_moisture_content]
    /\ energy = [c \in CellIds |-> 0]
    /\ burn_time = [c \in CellIds |-> 0]
    /\ cached_threshold = [c \in CellIds |-> NoThreshold]
    /\ burning_surface_cells = <<>>
    /\ burning_canopy_cells = <<>>
    /\ current_time = 0
    /\ stats = [burned_area |-> 0, fire_perimeter |-> 0, max_fire_intensity |-> 0,
                total_fuel_consumed |-> 0]
    /\ stats_history = <<>>
    /\ fire_history = <<>>
    /\ pc = "idle"
    /\ run = "none"
    /\ end_time = 0
    /\ result = no_result
    /\ step_start_burning = {}
    /\ energy_sources = {}
    /\ ignited_in_step = {}
    /\ predicted = [c \in CellIds |-> 0]
    /\ step_no = 0
    /\ raised = FALSE
    /\ run_steps = 0
    /\ run_start_time = 0
    /\ run_fresh = FALSE
    /\ run_extinct = FALSE

SetCells(W) ==
    /\ state' = W.state
    /\ fuel_load' = W.fuel_load
    /\ moisture_content' = W.moisture_content
    /\ energy' = W.energy
    /\ burn_time' = W.burn_time
    /\ cached_threshold' = W.cached_threshold

Ignited(W0, W1) == {c \in CellIds : W0.state[c] = UNBURNED /\ W1.state[c] # UNBURNED}

\* a set_ignition_point that records the ignition in fire_history before the
\* terrain generator looks at the point
SetIgnitionPointRecordingFirst(point, radius) ==
    /\ pc = "idle" /\ run = "none"
    /\ Len(fire_history) < MaxSeeds
    /\ IF Len(point) \notin {2, 3}
       THEN /\ raised' = TRUE
            /\ fire_history' = Append(fire_history,
                   [time |-> current_time, ignition_points |-> <<>>])
            /\ UNCHANGED <<cell_vars, list_vars>>
       ELSE LET ignited_cells == terrain_ignited_cells(surface_cells, point, radius)
            IN  /\ SetCells(ignite_all(Cells, ignited_cells))
                /\ burning_surface_cells' = burning_surface_cells \o ignited_cells
                /\ UNCHANGED burning_canopy_cells
                /\ fire_history' = Append(fire_history,
                       [time |-> current_time,
                        ignition_points |-> [i \in 1..Len(ignited_cells) |->
                                                position(ignited_cells[i])]])
                /\ raised' = FALSE
    /\ UNCHANGED <<config_vars, clock_vars, pc, run_vars, obs_vars>>

\* CellularAutomaton.set_ignition_point; a point of another arity raises
\* ValueError inside the terrain generator, before anything is changed
SetIgnitionPoint(point, radius) ==
    /\ pc = "idle" /\ run = "none"
    /\ Len(fire_history) < MaxSeeds
    /\ IF Len(point) \notin {2, 3}
       THEN /\ raised' = TRUE
            /\ UNCHANGED <<cell_vars, list_vars, fire_history>>
       ELSE LET ignited_cells == terrain_ignited_cells(surface_cells, point, radius)
            IN  /\ SetCells(ignite_all(Cells, ignited_cells))
                /\ burning_surface_cells' = burning_surface_cells \o ignited_cells
                /\ UNCHANGED burning_canopy_cells
                /\ fire_history' = Append(fire_history,
                       [time |-> current_time,
                        ignition_points |-> [i \in 1..Len(ignited_cells) |->
                                                position(ignited_cells[i])]])
                /\ raised' = FALSE
    /\ UNCHANGED <<config_vars, clock_vars, pc, run_vars, obs_vars>>

\* a clock that stops advancing once it shows one minute
advance_clock_stuck(time) == IF time >= TimeScale THEN time ELSE time + dt

\* self.current_time += self.dt
advance_clock(time) == time + dt

\* what an observer notes when a step() begins; the counters stop at MaxSteps + 1
BeginStepObs ==
    /\ step_no' = Min(step_no + 1, MaxSteps + 1)
    /\ step_start_burning' = Range(burning_surface_cells) \cup Range(burning_canopy_cells)
    /\ energy_sources' = {}
    /\ ignited_in_step' = {}
    /\ predicted' = [c \in CellIds |->
           IF predicted[c] = 0 /\ state[c] \in BURNING /\ fuel_load[c] > 0
              /\ layer_rate(c) * dt > 0
           THEN step_no' - 1 + CeilDiv(fuel_load[c], layer_rate(c) * dt)
           ELSE predicted[c]]

\* a caller calls step()
Step ==
    /\ pc = "idle" /\ run = "none"
    /\ current_time < MaxSteps * dt
    /\ pc' = first_stage
    /\ BeginStepObs
    /\ raised' = FALSE
    /\ UNCHANGED <<config_vars, cell_vars, list_vars, clock_vars, fire_history,
                   run_vars>>

\* 1. self._energy_transfer_step()
EnergyTransferStage ==
    /\ pc = "energy"
    /\ LET W1 == energy_transfer_step(Cells, burning_surface_cells, burning_canopy_cells)
           visits == transfer_visits(burning_surface_cells \o burning_canopy_cells)
       IN  /\ SetCells(W1)
           /\ energy_sources' = {visits[i][1] : i \in
                  {k \in 1..Len(visits) :
                      /\ state[visits[k][2]] = UNBURNED
                      /\ calculate_energy_transfer(Cells, visits[k][1], visits[k][2],
                                                   enable_wind_effects) > 0}}
           /\ ignited_in_step' = ignited_in_step \cup Ignited(Cells, W1)
    /\ pc' = stage_after(pc)
    /\ UNCHANGED <<config_vars, list_vars, clock_vars, fire_history, run_vars,
                   step_start_burning, predicted, step_no, raised>>

\* 2. self._ignition_step()
IgnitionStage ==
    /\ pc = "ignition"
    /\ LET W1 == ignition_step_cells(Cells)
       IN  /\ SetCells(W1)
           /\ burning_surface_cells' =
                  burning_surface_cells \o newly_ignited(Cells, surface_cells)
           /\ burning_canopy_cells' =
                  burning_canopy_cells \o newly_ignited(Cells, canopy_cells)
           /\ ignited_in_step' = ignited_in_step \cup Ignited(Cells, W1)
    /\ pc' = stage_after(pc)
    /\ UNCHANGED <<config_vars, clock_vars, fire_history, run_vars,
                   step_start_burning, energy_sources, predicted, step_no, raised>>

\* 3. self._fuel_consumption_step(): the surface loop, then the canopy loop
FuelConsumptionStage ==
    /\ pc = "fuel"
    /\ LET s == consume_all(Cells, burning_surface_cells, fuel_consumption_rate, <<>>)
           k == consume_all(s.W, burning_canopy_cells, fuel_consumption_rate * 2, <<>>)
       IN  /\ SetCells(k.W)
           /\ burning_surface_cells' = remove_all(burning_surface_cells, s.cells_to_remove)
           /\ burning_canopy_cells' = remove_all(burning_canopy_cells, k.cells_to_remove)
           /\ ignited_in_step' = ignited_in_step \cup Ignited(Cells, k.W)
    /\ pc' = stage_after(pc)
    /\ UNCHANGED <<config_vars, clock_vars, fire_history, run_vars,
                   step_start_burning, energy_sources, predicted, step_no, raised>>

\* 4. if self.enable_crown_fire: self._crown_fire_transition_step()
CrownFireStage ==
    /\ pc = "crown"
    /\ IF enable_crown_fire
       THEN LET r == crown_fire_transition(Cells, burning_surface_cells, <<>>)
            IN  /\ SetCells(r.W)
                /\ burning_canopy_cells' = burning_canopy_cells \o r.newly
                /\ ignited_in_step' = ignited_in_step \cup Ignited(Cells, r.W)
       ELSE UNCHANGED <<cell_vars, burning_canopy_cells, ignited_in_step>>
    /\ pc' = stage_after(pc)
    /\ UNCHANGED <<config_vars, burning_surface_cells, clock_vars, fire_history, run_vars,
                   step_start_burning, energy_sources, predicted, step_no, raised>>

\* 5. if self.enable_spotting: self._spotting_step()
SpottingStage ==
    /\ pc = "spotting"
    /\ IF enable_spotting
       THEN \E choices \in [1..Len(burning_canopy_cells) -> SpotChoices] :
              LET r == spotting(Cells, burning_canopy_cells, choices, <<>>)
              IN  /\ SetCells(r.W)
                  /\ burning_surface_cells' = burning_surface_cells \o r.newly
                  /\ ignited_in_step' = ignited_in_step \cup Ignited(Cells, r.W)
       ELSE UNCHANGED <<cell_vars, burning_surface_cells, ignited_in_step>>
    /\ pc' = stage_after(pc)
    /\ UNCHANGED <<config_vars, burning_canopy_cells, clock_vars, fire_history, run_vars,
                   step_start_burning, energy_sources, predicted, step_no, raised>>

\* 6.-8. the clock, _update_statistics(), _record_history()
FinishStage ==
    /\ pc = "finish"
    /\ current_time' = advance_clock(current_time)
    /\ stats' = update_statistics(Cells, burning_surface_cells)
    /\ stats_history' = record_history(stats_history, current_time', stats',
                                       burning_surface_cells, burning_canopy_cells)
    /\ run_extinct' = IF run = "stepping" /\ burning_surface_cells = <<>>
                         /\ burning_canopy_cells = <<>>
                      THEN TRUE ELSE run_extinct
    /\ step_start_burning' = {}
    /\ energy_sources' = {}
    /\ ignited_in_step' = {}
    /\ pc' = stage_after(pc)
    /\ UNCHANGED <<config_vars, cell_vars, list_vars, fire_history, run, end_time, result,
                   run_steps, run_start_time, run_fresh, predicted, step_no, raised>>

(***************************************************************************)
(* run_simulation(end_time): the while loop around step().                  *)
(***************************************************************************)
max_simulation_time == MaxSteps * dt

\* the argument of run_simulation: <<>> is None, <<e>> is the end time e
EndTimes == {<<>>, <<dt + 1>>}

\* while self.current_time < end_time
loop_continues_inclusive(time, e) == time <= e

loop_continues(time, e) == time < e

\* the loop as it would be without its break
no_break(bs, bc) == FALSE

\* if len(burning_surface_cells) == 0 and len(burning_canopy_cells) == 0: break
loop_breaks(bs, bc) == Len(bs) = 0 /\ Len(bc) = 0

run_result == [final_time |-> current_time, burned_area |-> stats.burned_area]

RunSimulation(e) ==
    /\ pc = "idle" /\ run = "none"
    /\ run' = "test"
    /\ end_time' = IF e = <<>> THEN max_simulation_time ELSE e[1]
    /\ run_steps' = 0
    /\ run_start_time' = current_time
    /\ run_fresh' = (fire_history = <<>> /\ step_no = 0)
    /\ run_extinct' = FALSE
    /\ raised' = FALSE
    /\ UNCHANGED <<config_vars, cell_vars, list_vars, clock_vars, fire_history, pc,
                   result, obs_vars>>

\* the loop test: another step(), or the return
RunTest ==
    /\ pc = "idle" /\ run = "test"
    /\ IF loop_continues(current_time, end_time)
       THEN /\ run' = "stepping"
            /\ pc' = first_stage
            /\ BeginStepObs
            /\ UNCHANGED result
       ELSE /\ run' = "returned"
            /\ result' = run_result
            /\ UNCHANGED <<pc, obs_vars>>
    /\ UNCHANGED <<config_vars, cell_vars, list_vars, clock_vars, fire_history,
                   end_time, run_steps, run_start_time, run_fresh, run_extinct, raised>>

\* after self.step(): the extinction test
RunCheck ==
    /\ pc = "idle" /\ run = "stepping"
    /\ run_steps' = Min(run_steps + 1, MaxSteps + 1)
    /\ IF loop_breaks(burning_surface_cells, burning_canopy_cells)
       THEN run' = "returned" /\ result' = run_result
       ELSE run' = "test" /\ UNCHANGED result
    /\ UNCHANGED <<config_vars, cell_vars, list_vars, clock_vars, fire_history, pc,
                   end_time, run_start_time, run_fresh, run_extinct, obs_vars, raised>>

\* the caller has the result
RunReturn ==
    /\ run = "returned"
    /\ run' = "none"
    /\ end_time' = 0
    /\ result' = no_result
    /\ run_steps' = 0
    /\ run_start_time' = 0
    /\ run_fresh' = FALSE
    /\ run_extinct' = FALSE
    /\ UNCHANGED <<config_vars, cell_vars, list_vars, clock_vars, fire_history, pc,
                   obs_vars, raised>>

StepStages ==
    \/ EnergyTransferStage
    \/ IgnitionStage
    \/ FuelConsumptionStage
    \/ CrownFireStage
    \/ SpottingStage
    \/ FinishStage

Next ==
    \/ \E point \in SeedPoints, radius \in SeedRadii : SetIgnitionPoint(point, radius)
    \/ Step
    \/ StepStages
    \/ \E e \in EndTimes : RunSimulation(e)
    \/ RunTest
    \/ RunCheck
    \/ RunReturn

Spec == Init /\ [][Next]_vars

\* The program is sequential: a step() that has begun goes on to its next
\* stage, and the loop of run_simulation goes on to its next test.  Under
\* [Next]_vars the only steps that move pc to stage_after(pc) are the stages of
\* step(), and the only steps that change run inside a call are RunTest and
\* RunCheck.
StepRunsOn == pc # "idle" /\ pc' = stage_after(pc)

LoopRunsOn ==
    /\ pc = "idle"
    /\ run \in {"test", "stepping"}
    /\ run' \in {"test", "stepping", "returned"}

FairSpec == Init /\ [][Next]_vars /\ WF_pc(StepRunsOn) /\ WF_run(LoopRunsOn)

(***************************************************************************)
(* The Cell class on its own: any sequence of its operations on one cell,   *)
(* with arguments from small sets.  The automaton is idle throughout.       *)
(***************************************************************************)
the_cell == Head(surface_cells)

EnergyDeltas == {1, base_ignition_energy}
MoistureDeltas == {-1, 1}
BaseEnergies == {8, 16}

CellFrame == UNCHANGED <<dt, fuel_consumption_rate, initial_fuel_load, wind_x,
                         enable_wind_effects, enable_crown_fire, enable_spotting,
                         enable_dynamic_moisture, list_vars, clock_vars, fire_history,
                         pc, run_vars, obs_vars, raised>>

CellUpdateEnergy ==
    /\ \E energy_delta \in EnergyDeltas :
           /\ energy[the_cell] + energy_delta <= 2 * base_ignition_energy
           /\ SetCells(update_energy(Cells, the_cell, energy_delta))
    /\ UNCHANGED base_ignition_energy /\ CellFrame

CellUpdateMoisture ==
    /\ \E moisture_delta \in MoistureDeltas :
           /\ moisture_content[the_cell] + moisture_delta <= canopy_moisture_content
           /\ SetCells(update_moisture(Cells, the_cell, moisture_delta))
    /\ UNCHANGED base_ignition_energy /\ CellFrame

CellIgnite ==
    /\ \E fire_type \in {SURFACE_FIRE, CROWN_FIRE} :
           SetCells(ignite(Cells, the_cell, fire_type))
    /\ UNCHANGED base_ignition_energy /\ CellFrame

CellConsumeFuel ==
    /\ burn_time[the_cell] < MaxSteps * dt
    /\ SetCells(consume_fuel(Cells, the_cell, fuel_consumption_rate, dt))
    /\ UNCHANGED base_ignition_energy /\ CellFrame

CellBurnOut ==
    /\ SetCells(burn_out(Cells, the_cell))
    /\ UNCHANGED base_ignition_energy /\ CellFrame

CellSetIgnitionParameters ==
    /\ \E base_energy \in BaseEnergies : base_ignition_energy' = base_energy
    /\ SetCells(set_ignition_parameters(Cells, the_cell))
    /\ CellFrame

\* a read of the ignition_threshold property
CellReadThreshold ==
    /\ SetCells(read_threshold(Cells, the_cell))
    /\ UNCHANGED base_ignition_energy /\ CellFrame

CellNext ==
    \/ CellUpdateEnergy
    \/ CellUpdateMoisture
    \/ CellIgnite
    \/ CellConsumeFuel
    \/ CellBurnOut
    \/ CellSetIgnitionParameters
    \/ CellReadThreshold

CellSpec == Init /\ [][CellNext]_vars

(***************************************************************************)
(* Properties.                                                              *)
(***************************************************************************)
Worklist == burning_surface_cells \o burning_canopy_cells

\* the sum of a function over its (finite) domain, in no particular order
RECURSIVE FnSum(_)
FnSum(f) ==
    IF DOMAIN f = {} THEN 0
    ELSE LET x == CHOOSE y \in DOMAIN f : TRUE
         IN  f[x] + FnSum([z \in (DOMAIN f) \ {x} |-> f[z]])

Reverse(q) == [i \in 1..Len(q) |-> q[Len(q) + 1 - i]]

AllowedChange(a, b) ==
    <<a, b>> \in {<<UNBURNED, SURFACE_FIRE>>, <<UNBURNED, CROWN_FIRE>>,
                  <<SURFACE_FIRE, BURNED_OUT>>, <<CROWN_FIRE, BURNED_OUT>>}

\* C1: every change of a cell's fire state, by seeding or by a stage of
\* step(), is UNBURNED -> SURFACE_FIRE, UNBURNED -> CROWN_FIRE,
\* SURFACE_FIRE -> BURNED_OUT or CROWN_FIRE -> BURNED_OUT; in particular no
\* cell leaves BURNED_OUT and none goes from UNBURNED straight to BURNED_OUT.
C1_StateGraph ==
    [][\A c \in CellIds :
          state'[c] # state[c] => AllowedChange(state[c], state'[c])]_vars

\* a burned-out surface cell that a later seeding put back on the worklist
\* and that stayed BURNED_OUT, next to a canopy cell that burned out too
C1_Witness ==
    /\ pc = "idle"
    /\ \E c \in SurfaceIds : state[c] = BURNED_OUT /\ c \in Range(burning_surface_cells)
    /\ \E k \in CanopyIds : state[k] = BURNED_OUT

\* C2: between calls, burning_surface_cells holds exactly the SURFACE_FIRE
\* surface cells, each once, and burning_canopy_cells exactly the CROWN_FIRE
\* canopy cells, each once.
C2_WorklistsExact ==
    (pc = "idle" /\ run = "none") =>
        /\ Range(burning_surface_cells) \subseteq SurfaceIds
        /\ Range(burning_canopy_cells) \subseteq CanopyIds
        /\ \A c \in SurfaceIds :
              Count(burning_surface_cells, c) = IF state[c] = SURFACE_FIRE THEN 1 ELSE 0
        /\ \A c \in CanopyIds :
              Count(burning_canopy_cells, c) = IF state[c] = CROWN_FIRE THEN 1 ELSE 0

\* C3: inside one step(), every cell that passed energy to a neighbour was on
\* a burning worklist when the step began, and no cell ignited during the
\* step is among them.
C3_SourcesBurnedAtStart ==
    /\ energy_sources \subseteq step_start_burning
    /\ energy_sources \cap ignited_in_step = {}

\* the end of a step in which burning cells heated neighbours and a surface
\* cell and a canopy cell were ignited
C3_Witness ==
    /\ pc = "finish"
    /\ energy_sources # {}
    /\ ignited_in_step \cap SurfaceIds # {}
    /\ ignited_in_step \cap CanopyIds # {}

\* the energy the stage owes cell c: the transfers of all (worklist entry,
\* neighbour entry) pairs that target c, computed on the cells as W has them
OwedEnergy(W, worklist, c) ==
    LET pairs == {<<i, j>> \in (1..Len(worklist)) \X (1..8) :
                     /\ j <= Len(neighbors(worklist[i]))
                     /\ neighbors(worklist[i])[j] = c}
    IN  FnSum([p \in pairs |->
                  calculate_energy_transfer(W, worklist[p[1]], c, enable_wind_effects)])

\* C4: the energy-transfer stage adds to every UNBURNED cell exactly the sum,
\* over the (worklist entry, neighbour) pairs that target it, of the transfer
\* computed on the cells as they were before the stage, leaves the energy of
\* every other cell alone, and visiting the worklists in the opposite order
\* gives the same cells.
C4_EnergyTransferExact ==
    [][pc = "energy" =>
          /\ \A c \in CellIds :
                energy'[c] = IF state[c] = UNBURNED
                             THEN energy[c] + OwedEnergy(Cells, Worklist, c)
                             ELSE energy[c]
          /\ energy_transfer_step(Cells, Reverse(burning_surface_cells),
                                  Reverse(burning_canopy_cells)).energy = energy'
      ]_vars

\* after the stage: the middle surface cell, still UNBURNED, has been heated
\* by the two different burning cells beside it
C4_Witness ==
    /\ pc = stage_after("energy")
    /\ {0, 2} \subseteq energy_sources
    /\ state[1] = UNBURNED
    /\ energy[1] > 0

\* C5 as claimed: whatever stage of step() moves a cell out of UNBURNED, the
\* cell's energy is at least its ignition threshold at that moment.
C5_EveryStageRespectsThreshold ==
    [][pc # "idle" =>
          \A c \in CellIds :
              (state[c] = UNBURNED /\ state'[c] # UNBURNED)
                  => energy[c] >= ignition_threshold(Cells, c)]_vars

\* C5 as amended: a cell that the ignition stage moves out of UNBURNED has
\* energy at least its ignition threshold (the crown-fire transition and
\* spotting, like seeding, ignite whatever the energy).
C5_IgnitionStageRespectsThreshold ==
    [][pc = "ignition" =>
          \A c \in CellIds :
              (state[c] = UNBURNED /\ state'[c] # UNBURNED)
                  => energy[c] >= ignition_threshold(Cells, c)]_vars

\* right after an ignition stage that ignited a cell
C5_Witness ==
    /\ pc = stage_after("ignition")
    /\ \E c \in ignited_in_step : state[c] \in BURNING /\ energy[c] > 0

initial_fuel(c) == IF c \in SurfaceIds THEN initial_fuel_load ELSE canopy_fuel_load

initial_moisture(c) ==
    IF c \in SurfaceIds THEN initial_moisture_content ELSE canopy_moisture_content

\* C6: in every reachable state every cell has fuel_load >= 0 and
\* moisture_content >= 0.
C6_NonNegative ==
    \A c \in CellIds : fuel_load[c] >= 0 /\ moisture_content[c] >= 0

\* a cell dried to moisture 0 by more heat than its moisture could absorb, and
\* a cell burned out by a last consumption larger than the fuel it had left
C6_Witness ==
    /\ \E c \in CellIds :
          /\ moisture_content[c] = 0
          /\ energy[c] \div evaporation_divisor > initial_moisture(c)
    /\ \E b \in CellIds :
          /\ state[b] = BURNED_OUT
          /\ fuel_load[b] = 0
          /\ burn_time[b] * layer_rate(b) > initial_fuel(b)

\* C7: a cell found burning with fuel F > 0 at the start of a step is
\* BURNED_OUT at the end of a step exactly from the ceil(F / (rate * dt))-th
\* step on, counted from that one (rate doubled for the canopy), and is then
\* on no worklist.
C7_BurnOutOnSchedule ==
    pc = "finish" =>
        \A c \in CellIds :
            predicted[c] # 0 =>
                /\ (state[c] = BURNED_OUT) <=> (step_no >= predicted[c])
                /\ state[c] = BURNED_OUT => c \notin Range(Worklist)

\* C8: run_simulation(end_time > 0) on a fresh automaton without ignition
\* executes no step() and returns final_time 0 and burned_area 0.
C8_FreshRunReturnsAtZero ==
    (run = "returned" /\ run_fresh /\ end_time > 0) =>
        /\ run_steps = 0
        /\ result.final_time = 0
        /\ result.burned_area = 0

\* C9: every call of run_simulation returns.
C9_RunTerminates == (run = "test") ~> (run = "returned")

\* a run that the end time stopped, after several steps, while cells of both
\* layers were still burning with spotting enabled
C9_Witness ==
    /\ run = "returned"
    /\ enable_spotting
    /\ run_steps >= 2
    /\ burning_surface_cells # <<>>
    /\ burning_canopy_cells # <<>>
    /\ current_time >= end_time

\* what holds of every return of run_simulation but the bound on final_time
RunLoopDiscipline ==
    /\ run = "returned" =>
          \/ (burning_surface_cells = <<>> /\ burning_canopy_cells = <<>>)
          \/ current_time >= end_time
    /\ (run = "stepping" /\ pc = first_stage) =>
          (~run_extinct /\ current_time < end_time)

\* C10 as claimed: on return the worklists are empty or the clock has reached
\* end_time, no step() begins after a step of the run ended with both
\* worklists empty or once the clock has reached end_time, and final_time is
\* smaller than end_time + dt.
C10_ReturnBoundedByEndTime ==
    /\ RunLoopDiscipline
    /\ run = "returned" => result.final_time < end_time + dt

\* C10 as amended: final_time is smaller than end_time + dt when the clock was
\* below end_time at the call; otherwise no step() runs and final_time is the
\* clock at the call.
C10_ReturnBoundedWhenStarted ==
    /\ RunLoopDiscipline
    /\ run = "returned" =>
          /\ result.final_time = current_time
          /\ run_start_time < end_time => result.final_time < end_time + dt
          /\ run_start_time >= end_time =>
                (run_steps = 0 /\ result.final_time = run_start_time)

\* a run that stepped up to its end time with fire left, returning a
\* final_time past end_time
C10_Witness ==
    /\ run = "returned"
    /\ run_steps >= 1
    /\ burning_surface_cells # <<>>
    /\ end_time < result.final_time
    /\ result.final_time < end_time + dt

\* the Van-Wagner test on surface cell s as the cells stand: the fire-line
\* intensity I against (critical_base10 / 10) ^ 1.5, that is I^2 * 1000 against
\* critical_base10 ^ 3
ExceedsVanWagner(s) ==
    LET I == calculate_fire_line_intensity(Cells, s)
        x == critical_base10(Cells, s)
    IN  I * I * 1000 > x * x * x

PairedWith(s, c) ==
    /\ s \in SurfaceIds /\ c \in CanopyIds
    /\ position(s)[1] = position(c)[1]
    /\ position(s)[2] = position(c)[2]

\* C11: whenever the crown-fire transition stage ignites a canopy cell, crown
\* fire is enabled and the cell is paired by x/y position with a cell of the
\* surface worklist whose fire-line intensity strictly exceeds the Van-Wagner
\* critical intensity; so a surface cell at or below it never has its canopy
\* cell ignited by this stage.
C11_CrownTransitionNeedsIntensity ==
    [][pc = "crown" =>
          \A c \in CanopyIds :
              (state[c] = UNBURNED /\ state'[c] # UNBURNED) =>
                  /\ enable_crown_fire
                  /\ state'[c] = CROWN_FIRE
                  /\ \E s \in Range(burning_surface_cells) :
                         PairedWith(s, c) /\ ExceedsVanWagner(s)]_vars

\* after a crown-fire stage: a canopy cell it ignited (its energy is below its
\* threshold) next to a canopy cell left UNBURNED over a burning surface cell
C11_Witness ==
    /\ pc = stage_after("crown")
    /\ enable_crown_fire
    /\ \E c \in CanopyIds \cap ignited_in_step :
           state[c] = CROWN_FIRE /\ energy[c] < ignition_threshold(Cells, c)
    /\ \E s \in Range(burning_surface_cells), k \in CanopyIds :
           /\ PairedWith(s, k)
           /\ state[s] = SURFACE_FIRE
           /\ state[k] = UNBURNED
           /\ ~ExceedsVanWagner(s)

\* C12: with enable_dynamic_moisture false no step of the program changes the
\* moisture content of any cell.
C12_MoistureFrozenWhenDisabled ==
    [][~enable_dynamic_moisture => moisture_content' = moisture_content]_vars

\* What the automaton that differs only by a calm wind vector computes from
\* the same cells: with a zero wind vector wind_effect returns 1, which is
\* what it returns with enable_wind false.
CalmIntensity(W, c) ==
    IF W.state[c] # SURFACE_FIRE THEN 0
    ELSE LET ns == unburned_neighbors(W, c)
             total == SeqSum([i \in 1..Len(ns) |->
                          calculate_spread_rate(W, c, ns[i], FALSE)])
         IN  IF Len(ns) = 0 THEN 0
             ELSE (heat_content * (total \div Len(ns)) * W.fuel_load[c]) \div 1000

CalmCrownTest(W, c) ==
    LET I == CalmIntensity(W, c)
        x == critical_base10(W, c)
    IN  I * I * 1000 > x * x * x

RECURSIVE CalmCrownTransition(_, _, _)
CalmCrownTransition(W, worklist, newly) ==
    IF worklist = <<>> THEN [W |-> W, newly |-> newly]
    ELSE LET k == find_corresponding_canopy_cell(Head(worklist))
         IN  IF CalmCrownTest(W, Head(worklist)) /\ k # -1 /\ W.state[k] = UNBURNED
             THEN CalmCrownTransition(ignite(W, k, CROWN_FIRE), Tail(worklist),
                                      Append(newly, k))
             ELSE CalmCrownTransition(W, Tail(worklist), newly)

WindIsolated == ~enable_wind_effects /\ ~enable_spotting /\ enable_crown_fire

\* C13: with wind effects and spotting disabled and crown fire enabled, the
\* run does not depend on the wind vector.  Step by step: from the same cells
\* and worklists every stage leaves the cell states, worklists and statistics
\* that it leaves in the automaton whose wind vector is calm, so the two
\* automata never come apart.
C13_WindVectorIrrelevant ==
    [][WindIsolated =>
          /\ pc = "crown" =>
                LET twin == CalmCrownTransition(Cells, burning_surface_cells, <<>>)
                IN  /\ state' = twin.W.state
                    /\ burning_canopy_cells' = burning_canopy_cells \o twin.newly
          /\ pc = "finish" =>
                stats'.max_fire_intensity =
                    SetMax({0} \cup {CalmIntensity(Cells, c) :
                                        c \in Range(burning_surface_cells)})]_vars

\* C14: with crown fire disabled (the ignition threshold positive, the canopy
\* starting UNBURNED without energy, neighbours within a layer, seeding only by
\* set_ignition_point), no canopy cell ever leaves UNBURNED and
\* burning_canopy_cells stays empty.
C14_CanopyUntouchedWithoutCrownFire ==
    ~enable_crown_fire =>
        /\ \A c \in CanopyIds : state[c] = UNBURNED
        /\ burning_canopy_cells = <<>>

\* crown fire disabled, and at the end of the second or a later step a surface
\* cell burns above the Van-Wagner intensity under an UNBURNED canopy cell
C14_Witness ==
    /\ ~enable_crown_fire
    /\ base_ignition_energy > 0
    /\ pc = "finish"
    /\ step_no >= 2
    /\ \E s \in Range(burning_surface_cells), k \in CanopyIds :
           PairedWith(s, k) /\ ExceedsVanWagner(s) /\ state[k] = UNBURNED

\* the squared Euclidean distance of cell c to a point of 2 or 3 coordinates
SquaredDistance(c, point) ==
    LET sq(x) == x * x
    IN  sq(position(c)[1] - point[1]) + sq(position(c)[2] - point[2])
        + (IF Len(point) = 3 THEN sq(position(c)[3] - point[3]) ELSE 0)

AllSurfaceUnburned == \A c \in SurfaceIds : state[c] = UNBURNED

\* C15: set_ignition_point(position, radius) on a population whose surface
\* cells are all UNBURNED sets to SURFACE_FIRE exactly the surface cells at
\* Euclidean distance <= radius from the position (in 3D when z is given),
\* whatever their energy, changes no other cell, and makes the surface worklist
\* exactly those cells.
C15_SeedingIgnitesExactlyTheDisc ==
    [][\A point \in SeedPoints, radius \in SeedRadii :
          (AllSurfaceUnburned /\ Len(point) \in {2, 3}
           /\ SetIgnitionPoint(point, radius)) =>
              LET disc == {c \in SurfaceIds :
                              SquaredDistance(c, point) <= radius * radius}
              IN  /\ \A c \in disc : state'[c] = SURFACE_FIRE
                  /\ \A c \in CellIds \ disc :
                         /\ state'[c] = state[c]
                         /\ fuel_load'[c] = fuel_load[c]
                         /\ moisture_content'[c] = moisture_content[c]
                         /\ energy'[c] = energy[c]
                         /\ burn_time'[c] = burn_time[c]
                  /\ Range(burning_surface_cells') = disc
                  /\ Len(burning_surface_cells') = Cardinality(disc)
                  /\ burning_canopy_cells' = burning_canopy_cells]_vars

\* the first seeding has ignited some surface cells below their threshold and
\* left others UNBURNED
C15_Witness ==
    /\ Len(fire_history) = 1
    /\ step_no = 0
    /\ fire_history[1].ignition_points # <<>>
    /\ \E c \in SurfaceIds : state[c] = UNBURNED
    /\ \E c \in SurfaceIds :
           state[c] = SURFACE_FIRE /\ energy[c] < ignition_threshold(Cells, c)

\* C16: set_ignition_point with a position of neither 2 nor 3 coordinates
\* fails with an error and changes nothing: no cell, no worklist, no entry of
\* fire_history.
C16_BadArityRejectedUnchanged ==
    [][\A point \in SeedPoints, radius \in SeedRadii :
          (Len(point) \notin {2, 3} /\ SetIgnitionPoint(point, radius)) =>
              /\ raised'
              /\ UNCHANGED <<cell_vars, list_vars, fire_history, clock_vars,
                             config_vars>>]_vars

\* a call that was rejected after an earlier seeding had started a fire
C16_Witness ==
    /\ raised
    /\ pc = "idle"
    /\ Len(fire_history) = 1
    /\ burning_surface_cells # <<>>

\* C17: after any sequence of Cell operations and reads, a read of
\* ignition_threshold gives base_ignition_energy * exp(moisture_factor *
\* moisture_content) for the cell's present moisture: the cache is never stale.
C17_ThresholdNeverStale ==
    \A c \in CellIds :
        ignition_threshold(Cells, c) = base_ignition_energy * Pow2(moisture_content[c])

\* a threshold is cached for a burning cell that has been heated and whose
\* moisture is no longer the one it was created with
C17_Witness ==
    /\ cached_threshold[the_cell] # NoThreshold
    /\ moisture_content[the_cell] # initial_moisture_content
    /\ state[the_cell] \in BURNING
    /\ energy[the_cell] > 0

\* C18: burn_out() is idempotent: from every cell state a second call leaves
\* what the first left, which is BURNED_OUT with fuel load 0 and the energy,
\* moisture and burn time the cell had.
C18_BurnOutIdempotent ==
    \A c \in CellIds :
        LET once == burn_out(Cells, c)
            twice == burn_out(once, c)
        IN  /\ twice = once
            /\ once.state[c] = BURNED_OUT
            /\ once.fuel_load[c] = 0
            /\ once.energy = energy
            /\ once.moisture_content = moisture_content
            /\ once.burn_time = burn_time

\* a cell burned out by a call of burn_out while it held energy, moisture and
\* burn time
C18_Witness ==
    /\ state[the_cell] = BURNED_OUT
    /\ fuel_load[the_cell] = 0
    /\ energy[the_cell] > 1
    /\ moisture_content[the_cell] > 0
    /\ 0 < burn_time[the_cell]
    /\ burn_time[the_cell] * fuel_consumption_rate < initial_fuel_load

\* C19: ignite(kind) on a cell that is not UNBURNED changes nothing: fire
\* state, burn time, fuel load, energy and cached threshold stay as they are.
C19_IgniteOnlyFromUnburned ==
    \A c \in CellIds, fire_type \in {SURFACE_FIRE, CROWN_FIRE} :
        state[c] # UNBURNED => ignite(Cells, c, fire_type) = Cells

\* a burning cell with burn time and a cached threshold, which a further
\* ignite would reset
C19_Witness ==
    /\ state[the_cell] \in BURNING
    /\ burn_time[the_cell] > 0
    /\ cached_threshold[the_cell] # NoThreshold
    /\ fuel_load[the_cell] > 0

BurnedSurface(st) == {c \in SurfaceIds : st[c] \in {SURFACE_FIRE, BURNED_OUT}}

\* C20: after every step() stats['burned_area'] is cell_size^2 times the
\* number of surface cells then in SURFACE_FIRE or BURNED_OUT, and it is not
\* smaller than after the step before.
C20_BurnedAreaCountsAndGrows ==
    [][pc = "finish" =>
          /\ stats'.burned_area =
                 cell_size * cell_size * Cardinality(BurnedSurface(state'))
          /\ stats'.burned_area >= stats.burned_area]_vars

\* after a second or later step: the recorded area covers a burned-out cell
\* and a burning one
C20_Witness ==
    /\ pc = "idle"
    /\ step_no >= 2
    /\ stats.burned_area >= 2 * cell_size * cell_size
    /\ \E c \in SurfaceIds : state[c] = BURNED_OUT
    /\ \E c \in SurfaceIds : state[c] = SURFACE_FIRE

\* C21: stats['max_fire_intensity'] is a running maximum: no step() lowers
\* it, and after a step it is at least the fire-line intensity of every
\* surface cell burning at the end of that step.
C21_MaxIntensityIsRunningMaximum ==
    [][pc = "finish" =>
          /\ stats'.max_fire_intensity >= stats.max_fire_intensity
          /\ \A c \in Range(burning_surface_cells') :
                 stats'.max_fire_intensity >=
                     calculate_fire_line_intensity(Cells, c)]_vars

\* C22: the statistics history is append-only with at most one record per
\* simulated hour: no step of the program changes or removes a record, and the
\* times of consecutive records increase by at least 60 minutes.
C22_HistoryHourly ==
    [][/\ Len(stats_history') >= Len(stats_history)
       /\ SubSeq(stats_history', 1, Len(stats_history)) = stats_history
       /\ \A i \in 1..(Len(stats_history') - 1) :
              stats_history'[i + 1].time - stats_history'[i].time >= 60 * TimeScale]_vars

\* C23: seeding is the only source of fire: as long as set_ignition_point has
\* ignited nothing, for every base ignition energy >= 0 and after any number
\* of steps, every cell is UNBURNED, both worklists are empty and the burned
\* area is 0.
C23_NoFireWithoutSeeding ==
    fire_history = <<>> =>
        /\ \A c \in CellIds : state[c] = UNBURNED
        /\ burning_surface_cells = <<>>
        /\ burning_canopy_cells = <<>>
        /\ stats.burned_area = 0

\* the fuel that consumption has removed from the cells of S since their
\* creation
FuelRemoved(S) == FnSum([c \in S |-> initial_fuel(c) - fuel_load[c]])

\* C24: after every step() stats['total_fuel_consumed'] is cell_size^2 times
\* the fuel load that consumption has removed, summed over the cells of both
\* layers.
C24_FuelConsumedCountsBothLayers ==
    pc = "idle" /\ step_no > 0 =>
        stats.total_fuel_consumed = cell_size * cell_size * FuelRemoved(CellIds)

\* C25: the ignition stage ignites every eligible cell with the fire type of
\* its layer, and from then to the end of the step no cell is both UNBURNED
\* and eligible to ignite.
C25_NoEligibleCellLeft ==
    [][/\ pc = "ignition" =>
              \A c \in CellIds :
                  can_ignite(Cells, c) =>
                      state'[c] = IF c \in SurfaceIds THEN SURFACE_FIRE ELSE CROWN_FIRE
       /\ pc \in {"ignition", "fuel", "crown", "spotting", "finish"} =>
              \A c \in CellIds : ~can_ignite(Cells', c)]_vars

\* a step with a positive threshold has ignited a surface cell and a canopy
\* cell whose energy reached it, and has ended
C25_Witness ==
    /\ pc = "finish" /\ base_ignition_energy > 0
    /\ \E c \in SurfaceIds \cap ignited_in_step :
           energy[c] >= threshold_formula(Cells, c) /\ state[c] # UNBURNED
    /\ \E c \in CanopyIds \cap ignited_in_step :
           energy[c] >= threshold_formula(Cells, c) /\ state[c] # UNBURNED

\* C26: extinction is absorbing: a step() that starts with both worklists
\* empty after an earlier step() has ended changes no cell's state, fuel
\* load, moisture or energy and not the statistics record, and leaves both
\* worklists empty; the stages of such a step touch nothing but the clock and
\* the history.
C26_ExtinctionAbsorbing ==
    [][pc # "idle" /\ step_no >= 2 /\ step_start_burning = {} =>
          /\ state' = state /\ fuel_load' = fuel_load
          /\ moisture_content' = moisture_content /\ energy' = energy
          /\ stats' = stats
          /\ burning_surface_cells' = <<>> /\ burning_canopy_cells' = <<>>]_vars

\* a later step() has run its stages after a fire went out, with burned-out
\* cells and heated unburned cells in the population
C26_Witness ==
    /\ pc = "finish" /\ step_no >= 2 /\ step_start_burning = {}
    /\ burning_surface_cells = <<>> /\ burning_canopy_cells = <<>>
    /\ \E c \in CellIds : state[c] = BURNED_OUT
    /\ \E c \in CellIds : state[c] = UNBURNED /\ energy[c] > 0

\* what a cell can still contribute to a fire: its fuel while it burns, its
\* fuel and its ignition while it is unburned, nothing once burned out
BurnRank(c) ==
    IF state[c] = UNBURNED THEN fuel_load[c] + 2
    ELSE IF state[c] = BURNED_OUT THEN 0 ELSE fuel_load[c]

\* a natural number that bounds the steps a fire can still take
FireMeasure ==
    SeqSum([i \in 1..(2 * width) |-> BurnRank((surface_cells \o canopy_cells)[i])])
        + Len(burning_surface_cells) + Len(burning_canopy_cells)

\* C27: every fire eventually dies out when fuel_consumption_rate * dt > 0:
\* no cell leaves UNBURNED twice, no stage of step() raises the measure of
\* the fire, and the fuel stage of every step() with a cell on a worklist
\* lowers it, so that repeated step() calls without seeding empty both
\* worklists after at most FireMeasure steps.
C27_FireDiesOut ==
    [][/\ \A c \in CellIds : state[c] # UNBURNED => state'[c] # UNBURNED
       /\ pc # "idle" /\ fuel_consumption_rate * dt > 0 =>
              IF pc = "fuel" /\ burning_surface_cells \o burning_canopy_cells # <<>>
              THEN FireMeasure' < FireMeasure
              ELSE FireMeasure' <= FireMeasure]_vars

\* with crown fire and spotting enabled a fire that burned for more than one
\* step in both layers has died out
C27_Witness ==
    /\ pc = "idle" /\ step_no >= 2 /\ fuel_consumption_rate * dt > 0
    /\ enable_crown_fire /\ enable_spotting
    /\ burning_surface_cells = <<>> /\ burning_canopy_cells = <<>>
    /\ \E c \in SurfaceIds : state[c] = BURNED_OUT /\ burn_time[c] > dt
    /\ \E c \in CanopyIds : state[c] = BURNED_OUT

\* C28: fire states are layer-typed in every reachable state: no surface
\* cell is in CROWN_FIRE, no canopy cell is in SURFACE_FIRE, and each
\* worklist holds cells of its own layer only.
C28_LayerTyped ==
    /\ \A c \in SurfaceIds : state[c] # CROWN_FIRE
    /\ \A c \in CanopyIds : state[c] # SURFACE_FIRE
    /\ Range(burning_surface_cells) \subseteq SurfaceIds
    /\ Range(burning_canopy_cells) \subseteq CanopyIds

\* after seeding, crown-fire transition and spotting both layers burn: a
\* seeded surface cell, a surface cell lit by a spot fire and a canopy cell
\* are on their worklists
C28_Witness ==
    /\ fire_history # <<>> /\ enable_spotting /\ enable_crown_fire
    /\ pc = "finish"
    /\ \E c \in SurfaceIds \cap ignited_in_step :
           /\ state[c] = SURFACE_FIRE /\ energy[c] < threshold_formula(Cells, c)
           /\ c \in Range(burning_surface_cells)
    /\ \E c \in CanopyIds :
           state[c] = CROWN_FIRE /\ c \in Range(burning_canopy_cells)

\* C29: no cell is UNBURNED at the start of a step() and BURNED_OUT at its
\* end: a cell ignited during a step is still burning, and on the worklist of
\* its layer, when the step ends.
C29_IgnitedCellOutlivesStep ==
    pc = "finish" =>
        \A c \in ignited_in_step :
            /\ state[c] \in {SURFACE_FIRE, CROWN_FIRE}
            /\ c \in Range(burning_surface_cells \o burning_canopy_cells)

\* C30: with spotting disabled and a positive ignition threshold fire spreads
\* only along neighbor links and the canopy pairing: at the end of the stages
\* of a step() every surface cell ignited in it is a neighbor of a surface
\* cell that was on the worklist when the step started, and every canopy cell
\* ignited in it is a neighbor of such a canopy cell or is paired with a
\* surface cell on the burning worklist.
C30_SpreadAlongNeighborLinks ==
    pc = "finish" /\ ~enable_spotting /\ base_ignition_energy > 0 =>
        \A c \in ignited_in_step :
            IF c \in SurfaceIds
            THEN \E s \in step_start_burning \cap SurfaceIds : c \in Range(neighbors(s))
            ELSE \/ \E k \in step_start_burning \cap CanopyIds : c \in Range(neighbors(k))
                 \/ \E s \in Range(burning_surface_cells) : PairedWith(s, c)

\* without spotting one step has lit a surface cell from a burning neighbor
\* and a canopy cell from a burning canopy neighbor, which itself caught fire
\* above a surface cell that burned
C30_Witness ==
    /\ pc = "finish" /\ ~enable_spotting /\ base_ignition_energy > 0
    /\ ignited_in_step \cap SurfaceIds # {}
    /\ \E c \in ignited_in_step \cap CanopyIds :
           \E k \in step_start_burning \cap CanopyIds :
               /\ c \in Range(neighbors(k))
               /\ \E s \in SurfaceIds : PairedWith(s, k) /\ state[s] # UNBURNED

====
